---- MODULE Spec2Model ----
(***************************************************************************)
(* Lowering core of roblox-ts: element/property access (indexed.ts),        *)
(* function lowering (function.ts) and parameter lowering                   *)
(* (transformParameters.ts).  Emitted Lua text is modelled as strings;      *)
(* the CompilerState object is the record held in the variable `state`.     *)
(***************************************************************************)
EXTENDS Integers, Sequences, FiniteSets, TLC

VARIABLES
    state,      \* the CompilerState: idStack, precedingStatementContexts, hoistStack, exports, indent
    last,       \* what the last lowering call was given and what it returned
    iterator,   \* a running generator: the emitted iterator object and its coroutine
    transform   \* a transformParameters call: its parameter list and what it returned

vars == <<state, last, iterator, transform>>

(* ------------------------------ bounds --------------------------------- *)
MaxContexts == 1
MaxIds == 2
MaxBuffered == 2
MaxScopes == 1
MaxRecorded == 1

(* ------------------------------ strings -------------------------------- *)
CharAt(str, i) == SubSeq(str, i, i)

IsDigit(c) == c \in {"0", "1", "2", "3", "4", "5", "6", "7", "8", "9"}

DigitValue(c) ==
    CASE c = "0" -> 0 [] c = "1" -> 1 [] c = "2" -> 2 [] c = "3" -> 3 [] c = "4" -> 4
      [] c = "5" -> 5 [] c = "6" -> 6 [] c = "7" -> 7 [] c = "8" -> 8 [] c = "9" -> 9

\* String.prototype.indexOf(c) !== -1
Contains(str, c) == \E i \in 1..Len(str) : CharAt(str, i) = c

\* String.prototype.substr(start, length), start counted from 0
Substr(str, start, length) ==
    IF length <= 0 \/ start >= Len(str) THEN ""
    ELSE SubSeq(str, start + 1, IF start + length > Len(str) THEN Len(str) ELSE start + length)

\* Number(text) for a decimal integer text
RECURSIVE Number(_)
Number(text) ==
    IF Len(text) = 0 THEN 0
    ELSE Number(SubSeq(text, 1, Len(text) - 1)) * 10 + DigitValue(CharAt(text, Len(text)))

\* Array.prototype.join(sep)
RECURSIVE Join(_, _)
Join(strs, sep) ==
    IF Len(strs) = 0 THEN ""
    ELSE IF Len(strs) = 1 THEN strs[1]
    ELSE strs[1] \o sep \o Join(Tail(strs), sep)

StartsWith(str, prefix) ==
    Len(prefix) <= Len(str) /\ SubSeq(str, 1, Len(prefix)) = prefix
EndsWith(str, suffix) ==
    Len(suffix) <= Len(str) /\ SubSeq(str, Len(str) - Len(suffix) + 1, Len(str)) = suffix
HasSubstring(str, sub) ==
    \E i \in 1..(Len(str) - Len(sub) + 1) : SubSeq(str, i, i + Len(sub) - 1) = sub
InSeq(x, q) == \E i \in 1..Len(q) : q[i] = x

\* expStr.match(/^_\d+$/)
MatchesTempId(expStr) ==
    /\ Len(expStr) >= 2
    /\ CharAt(expStr, 1) = "_"
    /\ \A i \in 2..Len(expStr) : IsDigit(CharAt(expStr, i))

(* --------------------------- CompilerState ------------------------------ *)
RECURSIVE SumSeq(_)
SumSeq(q) == IF Len(q) = 0 THEN 0 ELSE Head(q) + SumSeq(Tail(q))

NewState ==
    [ idStack |-> <<0>>,
      contexts |-> <<>>,
      hoistStack |-> <<>>,
      exports |-> <<>>,
      indent |-> "",
      flushed |-> <<>> ]      \* the buffer the last exit returned

pushIdStack(s) == [s EXCEPT !.idStack = Append(@, 0)]
popIdStack(s) == [s EXCEPT !.idStack = SubSeq(@, 1, Len(@) - 1)]
pushIndent(s) == [s EXCEPT !.indent = @ \o "\t"]
popIndent(s) == [s EXCEPT !.indent = Substr(@, 1, Len(@) - 1)]

NextId(s) == "_" \o ToString(SumSeq(s.idStack))
getNewId(s) == [s EXCEPT !.idStack[Len(s.idStack)] = @ + 1]

enterPrecedingStatementContext(s) == [s EXCEPT !.contexts = Append(@, <<>>)]

\* the statements of the innermost context, joined
JoinedTop(s) ==
    LET top == s.contexts[Len(s.contexts)]
    IN Join([i \in 1..Len(top) |-> top[i].text], "")
exitPrecedingStatementContext(s) ==
    [s EXCEPT !.contexts = SubSeq(@, 1, Len(@) - 1),
              !.flushed = s.contexts[Len(s.contexts)]]

\* appends to the innermost context only
pushPrecedingStatements(s, node, text) ==
    [s EXCEPT !.contexts[Len(s.contexts)] = Append(@, [node |-> node, text |-> text])]

\* declares a fresh id holding compiledSource; the id is NextId(s)
pushPrecedingStatementToNextId(s, node, compiledSource) ==
    pushPrecedingStatements(getNewId(s), node,
        s.indent \o "local " \o NextId(s) \o " = " \o compiledSource \o ";\n")

pushHoistStack(s, name) == [s EXCEPT !.hoistStack = Append(@, name)]
pushExport(s, name, exported) ==
    IF exported THEN [s EXCEPT !.exports = Append(@, name)] ELSE s

(* ----------------------- results of a lowering call --------------------- *)
Ok(s, str) == [s |-> s, str |-> str, err |-> ""]
Throw(s, errType) == [s |-> s, str |-> "", err |-> errType]

(* ----------------------------- source nodes ----------------------------- *)
\* Expression nodes as the front end hands them over: kind, children and the
\* answers of the type queries the lowering asks (type, tupleReturn, ...).
Identifier(name, type) ==
    [kind |-> "Identifier", name |-> name, type |-> type, exportLet |-> FALSE]
ExportLetIdentifier(name, type) ==
    [kind |-> "Identifier", name |-> name, type |-> type, exportLet |-> TRUE]
NumericLiteral(text) ==
    [kind |-> "NumericLiteral", text |-> text, type |-> "number"]
PostfixUnaryExpression(name) ==
    [kind |-> "PostfixUnaryExpression", name |-> name, type |-> "number"]
CallExpression(name, args, tupleReturn, type) ==
    [kind |-> "CallExpression", name |-> name, args |-> args,
     tupleReturn |-> tupleReturn, type |-> type]
ArrayLiteralExpression(elements) ==
    [kind |-> "ArrayLiteralExpression", elements |-> elements, type |-> "array"]
NewExpression(name, arrayConstructor) ==
    [kind |-> "NewExpression", name |-> name, arrayConstructor |-> arrayConstructor,
     type |-> IF arrayConstructor THEN "array" ELSE "object"]
ElementAccessExpression(exp, arg, type) ==
    [kind |-> "ElementAccessExpression", exp |-> exp, arg |-> arg, type |-> type]
PropertyAccessExpression(exp, name, propType, valDec, type) ==
    [kind |-> "PropertyAccessExpression", exp |-> exp, name |-> name,
     propType |-> propType, valDec |-> valDec, type |-> type, value |-> ""]
ConstEnumMember(exp, name, value) ==
    [kind |-> "PropertyAccessExpression", exp |-> exp, name |-> name,
     propType |-> "None", valDec |-> "constEnum", type |-> "number", value |-> value]
SuperExpression(baseClassName) ==
    [kind |-> "SuperExpression", name |-> baseClassName, type |-> "object"]
ParenthesizedExpression(exp) ==
    [kind |-> "ParenthesizedExpression", exp |-> exp, type |-> exp.type]
NonNullExpression(exp) ==
    [kind |-> "NonNullExpression", exp |-> exp, type |-> exp.type]

isNumberType(type) == type = "number"
isArrayType(type) == type = "array"
isTupleReturnTypeCall(node) == node.kind = "CallExpression" /\ node.tupleReturn
IsAny(node) == node.type = "any"

\* the identifiers whose side effects an expression extracts, in source order
RECURSIVE Effects(_)
RECURSIVE EffectsOfList(_)
Effects(node) ==
    CASE node.kind = "PostfixUnaryExpression" -> <<node.name>>
      [] node.kind = "CallExpression" -> EffectsOfList(node.args)
      [] node.kind = "ArrayLiteralExpression" -> EffectsOfList(node.elements)
      [] node.kind = "ElementAccessExpression" -> Effects(node.exp) \o Effects(node.arg)
      [] node.kind \in {"PropertyAccessExpression", "ParenthesizedExpression",
                        "NonNullExpression"} -> Effects(node.exp)
      [] OTHER -> <<>>
EffectsOfList(nodes) ==
    IF Len(nodes) = 0 THEN <<>> ELSE Effects(Head(nodes)) \o EffectsOfList(Tail(nodes))

(* ------------------------- expression lowering -------------------------- *)
RECURSIVE compileExpression(_, _)
RECURSIVE compileList(_, _)
RECURSIVE compileCallExpression(_, _, _)
RECURSIVE compileElementAccessExpression(_, _)
RECURSIVE compilePropertyAccessExpression(_, _)

\* an identifier bound to an exported `let` is read through its qualified path
compileIdentifier(s, node) ==
    Ok(s, IF node.exportLet THEN "_exports." \o node.name ELSE node.name)

compileNumericLiteral(s, node) == node.text

\* `i++` in expression position: the old value goes to a fresh id, then the increment
compilePostfixUnaryExpression(s, node) ==
    LET s1 == pushPrecedingStatementToNextId(s, node.name, node.name)
        s2 == pushPrecedingStatements(s1, node.name,
                  s.indent \o node.name \o " = " \o node.name \o " + 1;\n")
    IN Ok(s2, NextId(s))

\* a lowering that raised stays raised; otherwise its text is wrapped
Wrap(r, before, after) ==
    IF r.err # "" THEN r ELSE Ok(r.s, before \o r.str \o after)

\* lowers the nodes left to right; str is the sequence of their texts
ListCons(str, rest) ==
    IF rest.err # "" THEN rest ELSE [rest EXCEPT !.str = <<str>> \o @]
ListRest(first, nodes) ==
    IF first.err # "" THEN first ELSE ListCons(first.str, compileList(first.s, nodes))
compileList(s, nodes) ==
    IF Len(nodes) = 0 THEN [s |-> s, str |-> <<>>, err |-> ""]
    ELSE ListRest(compileExpression(s, Head(nodes)), Tail(nodes))

ArrayLiteralText(elements) ==
    IF elements.err # "" THEN elements
    ELSE IF Len(elements.str) = 0 THEN Ok(elements.s, "{}")
    ELSE Ok(elements.s, "{ " \o Join(elements.str, ", ") \o " }")
compileArrayLiteralExpression(s, node) ==
    ArrayLiteralText(compileList(s, node.elements))

CallText(node, doNotWrapTupleReturn, args) ==
    IF args.err # "" THEN args
    ELSE IF node.tupleReturn /\ ~doNotWrapTupleReturn
         THEN Ok(args.s, "{ " \o node.name \o "(" \o Join(args.str, ", ") \o ")" \o " }")
         ELSE Ok(args.s, node.name \o "(" \o Join(args.str, ", ") \o ")")
compileCallExpression(s, node, doNotWrapTupleReturn) ==
    CallText(node, doNotWrapTupleReturn, compileList(s, node.args))

compileNewExpression(s, node) ==
    IF node.arrayConstructor THEN Ok(s, "{}") ELSE Ok(s, node.name \o ".new()")

\* checkNonAny: an expression of type any is rejected
checkNonAny(node) == ~IsAny(node)

\* exp: the lowered node.exp
PropertyAccessText(node, exp) ==
    IF exp.err # "" THEN exp
    ELSE IF node.propType \in {"String", "Array"} /\ node.name = "length"
         THEN Ok(exp.s, "(#" \o exp.str \o ")")
    ELSE IF node.propType # "None" THEN Throw(exp.s, "InvalidMacroIndex")
    ELSE IF ~checkNonAny(node.exp) THEN Throw(exp.s, "NoAny")
    ELSE IF node.exp.kind = "SuperExpression"
         THEN Ok(exp.s, "(" \o node.exp.name \o "._getters." \o node.name
                        \o " and function(self) return " \o node.exp.name \o "._getters."
                        \o node.name \o "(self) end or function() return self."
                        \o node.name \o " end)(self)")
    ELSE IF node.valDec = "function" THEN Throw(exp.s, "NoFunctionIndex")
    ELSE IF node.valDec = "constEnum" THEN Ok(exp.s, node.value)
    ELSE IF node.valDec = "class" /\ node.name = "prototype"
         THEN Throw(exp.s, "NoClassPrototype")
    ELSE Ok(exp.s, exp.str \o "." \o node.name)
compilePropertyAccessExpression(s, node) ==
    PropertyAccessText(node, compileExpression(s, node.exp))

\* let addOne: the index is numeric and the base an array or a call returning one
AddOne(node) ==
    /\ isNumberType(node.arg.type)
    /\ \/ isArrayType(node.exp.type)
       \/ /\ node.exp.kind = "CallExpression"
          /\ (isTupleReturnTypeCall(node.exp) \/ isArrayType(node.exp.type))

\* the literal is folded but `value++` is lost
compileArgumentExpressionNoIncrement(s, node) ==
    IF node.arg.kind = "NumericLiteral" /\ ~Contains(node.arg.text, "e")
    THEN Ok(s, ToString(Number(compileNumericLiteral(s, node.arg))))
    ELSE Wrap(compileExpression(s, node.arg), "", IF AddOne(node) THEN " + 1" ELSE "")

\* let argExpStr: folded for a literal written without an exponent
compileArgumentExpression(s, node) ==
    IF node.arg.kind = "NumericLiteral" /\ ~Contains(node.arg.text, "e")
    THEN Ok(s, ToString(Number(compileNumericLiteral(s, node.arg))
                        + (IF AddOne(node) THEN 1 ELSE 0)))
    ELSE Wrap(compileExpression(s, node.arg), "", IF AddOne(node) THEN " + 1" ELSE "")

\* exp: the lowered node.exp
ElementAccessText(node, argExpStr, exp) ==
    IF exp.err # "" THEN exp
    ELSE IF ~checkNonAny(node.exp) \/ ~checkNonAny(node.arg) THEN Throw(exp.s, "NoAny")
    ELSE IF node.exp.kind = "CallExpression" /\ isTupleReturnTypeCall(node.exp)
         THEN IF argExpStr = "1" THEN Ok(exp.s, "(" \o exp.str \o ")")
              ELSE Ok(exp.s, "(select(" \o argExpStr \o ", " \o exp.str \o "))")
    ELSE IF \/ node.exp.kind = "ArrayLiteralExpression"
            \/ node.exp.kind = "NewExpression" /\ node.exp.arrayConstructor
         THEN Ok(exp.s, "(" \o exp.str \o ")[" \o argExpStr \o "]")
    ELSE Ok(exp.s, exp.str \o "[" \o argExpStr \o "]")

\* arg: the lowered index, which is lowered before the base
ElementAccessBase(node, arg) ==
    IF arg.err # "" THEN arg
    ELSE IF node.exp.kind = "CallExpression" /\ isTupleReturnTypeCall(node.exp)
         THEN ElementAccessText(node, arg.str, compileCallExpression(arg.s, node.exp, TRUE))
         ELSE ElementAccessText(node, arg.str, compileExpression(arg.s, node.exp))
compileElementAccessExpression(s, node) ==
    ElementAccessBase(node, compileArgumentExpression(s, node))

compileExpression(s, node) ==
    CASE node.kind = "Identifier" -> compileIdentifier(s, node)
      [] node.kind = "SuperExpression" -> Ok(s, "super")
      [] node.kind = "NumericLiteral" -> Ok(s, compileNumericLiteral(s, node))
      [] node.kind = "PostfixUnaryExpression" -> compilePostfixUnaryExpression(s, node)
      [] node.kind = "CallExpression" -> compileCallExpression(s, node, FALSE)
      [] node.kind = "ArrayLiteralExpression" -> compileArrayLiteralExpression(s, node)
      [] node.kind = "NewExpression" -> compileNewExpression(s, node)
      [] node.kind = "ElementAccessExpression" -> compileElementAccessExpression(s, node)
      [] node.kind = "PropertyAccessExpression" -> compilePropertyAccessExpression(s, node)
      [] node.kind = "ParenthesizedExpression" ->
            Wrap(compileExpression(s, node.exp), "(", ")")
      [] node.kind = "NonNullExpression" -> compileExpression(s, node.exp)

isIdentifierDefinedInExportLet(exp) == exp.exportLet

\* the test for an already synthetic name is lost
getReadableExpressionNameNoTempTest(s, exp, expStr) ==
    IF exp.kind = "Identifier" /\ ~isIdentifierDefinedInExportLet(exp)
    THEN Ok(s, expStr)
    ELSE Ok(pushPrecedingStatementToNextId(s, exp.kind, expStr), NextId(s))

getReadableExpressionName(s, exp, expStr) ==
    IF MatchesTempId(expStr)
       \/ (exp.kind = "Identifier" /\ ~isIdentifierDefinedInExportLet(exp))
    THEN Ok(s, expStr)
    ELSE Ok(pushPrecedingStatementToNextId(s, exp.kind, expStr), NextId(s))

(* --------------------------- statements, functions ---------------------- *)
NoNode == [kind |-> "None", tupleReturn |-> FALSE]

ReturnStatement(exp) == [kind |-> "ReturnStatement", exp |-> exp]
ExpressionStatement(exp) == [kind |-> "ExpressionStatement", exp |-> exp]
YieldStatement(exp) == [kind |-> "YieldStatement", exp |-> exp]
IfStatement(exp, statements) ==
    [kind |-> "IfStatement", exp |-> exp, statements |-> statements]
Block(statements) == [kind |-> "Block", statements |-> statements]

FunctionLikeKinds ==
    {"FunctionExpression", "ArrowFunction", "FunctionDeclaration", "ConstructorDeclaration",
     "MethodDeclaration", "GetAccessor", "SetAccessor"}

\* nodes: the ancestors of a node, the nearest first
RECURSIVE getFirstMemberWithParameters(_)
getFirstMemberWithParameters(nodes) ==
    IF Len(nodes) = 0 THEN NoNode
    ELSE IF Head(nodes).kind \in FunctionLikeKinds THEN Head(nodes)
    ELSE getFirstMemberWithParameters(Tail(nodes))

isTupleReturnType(func) == func.tupleReturn

RECURSIVE StripParentheses(_)
StripParentheses(exp) ==
    IF exp.kind \in {"ParenthesizedExpression", "NonNullExpression"}
    THEN StripParentheses(exp.exp)
    ELSE exp

\* the literal is returned through unpack like any other container
ReturnArrayTextUnpacked(e) == Wrap(e, "return unpack(", ");")

\* the array literal's `{ ` and ` }` are cut off its text
ReturnArrayText(e) ==
    IF e.err # "" THEN e ELSE Ok(e.s, "return " \o Substr(e.str, 2, Len(e.str) - 4) \o ";")

\* exp: the expression with its parentheses and non-null assertions stripped
ReturnStrOf(s, exp, func) ==
    IF func.kind # "None" /\ isTupleReturnType(func)
    THEN IF exp.kind = "ArrayLiteralExpression"
         THEN ReturnArrayText(compileExpression(s, exp))
         ELSE IF exp.kind = "CallExpression" /\ isTupleReturnTypeCall(exp)
         THEN Wrap(compileCallExpression(s, exp, TRUE), "return ", ";")
         ELSE Wrap(compileExpression(s, exp), "return unpack(", ");")
    ELSE Wrap(compileExpression(s, exp), "return ", ";")

getReturnStrFromExpression(s, node, func) ==
    ReturnStrOf(s, StripParentheses(node), func)

\* state.exitPrecedingStatementContextAndJoin() + state.indent + line + "\n"
ExitAndJoin(r, before, after) ==
    IF r.err # "" THEN r
    ELSE Ok(exitPrecedingStatementContext(r.s),
            JoinedTop(r.s) \o r.s.indent \o before \o r.str \o after \o "\n")

compileReturnStatement(s, node, ancestors) ==
    IF node.exp.kind # "None"
    THEN ExitAndJoin(getReturnStrFromExpression(
                         enterPrecedingStatementContext(s), node.exp,
                         getFirstMemberWithParameters(ancestors)), "", "")
    ELSE Ok(s, s.indent \o "return nil;\n")

RECURSIVE compileStatement(_, _, _)
RECURSIVE compileStatements(_, _, _)

\* lowers exp in a buffer of its own and splices the buffer before the line
compileLine(s, exp, before, after) ==
    ExitAndJoin(compileExpression(enterPrecedingStatementContext(s), exp), before, after)

compileExpressionStatement(s, node) == compileLine(s, node.exp, "", ";")

compileYieldStatement(s, node) ==
    compileLine(s, node.exp, "coroutine.yield({ value = ", "; done = false; });")

IfEnd(head, body) ==
    IF body.err # "" THEN body
    ELSE Ok(popIndent(body.s), head \o body.str \o popIndent(body.s).indent \o "end;\n")
IfBody(head, node, ancestors) ==
    IF head.err # "" THEN head
    ELSE IfEnd(head.str, compileStatements(pushIndent(head.s), node.statements,
                                           <<Block(node.statements), node>> \o ancestors))
compileIfStatement(s, node, ancestors) ==
    IfBody(compileLine(s, node.exp, "if ", " then"), node, ancestors)

compileStatement(s, node, ancestors) ==
    CASE node.kind = "ReturnStatement" -> compileReturnStatement(s, node, ancestors)
      [] node.kind = "ExpressionStatement" -> compileExpressionStatement(s, node)
      [] node.kind = "YieldStatement" -> compileYieldStatement(s, node)
      [] node.kind = "IfStatement" -> compileIfStatement(s, node, ancestors)

StatementsCons(str, rest) ==
    IF rest.err # "" THEN rest ELSE Ok(rest.s, str \o rest.str)
StatementsRest(first, nodes, ancestors) ==
    IF first.err # "" THEN first
    ELSE StatementsCons(first.str, compileStatements(first.s, nodes, ancestors))
compileStatements(s, nodes, ancestors) ==
    IF Len(nodes) = 0 THEN Ok(s, "")
    ELSE StatementsRest(compileStatement(s, Head(nodes), ancestors), Tail(nodes), ancestors)

\* body: the Block; ancestors: the ancestors of the Block, the nearest first
compileBlock(s, body, ancestors) ==
    compileStatements(s, body.statements, <<body>> \o ancestors)

(* ------------------------------ parameters ------------------------------ *)
Parameter(name, type) == [name |-> name, type |-> type, rest |-> FALSE, init |-> NoNode]
RestParameter(name) == [name |-> name, type |-> "array", rest |-> TRUE, init |-> NoNode]
DefaultParameter(name, init) ==
    [name |-> name, type |-> "number", rest |-> FALSE, init |-> init]

\* the texts of the initializer lines that are (or are not) default assignments
RECURSIVE InitializerTexts(_, _)
InitializerTexts(lines, defaults) ==
    IF Len(lines) = 0 THEN <<>>
    ELSE (IF Head(lines).default \in defaults THEN <<Head(lines).text>> ELSE <<>>)
         \o InitializerTexts(Tail(lines), defaults)

\* getParameterData: one target slot per ordinary parameter, `...` for a rest
\* parameter, and one initializer line per rest or defaulted parameter
RECURSIVE getParameterData(_, _)

RestLine(param) ==
    IF param.rest
    THEN <<[default |-> FALSE, text |-> "local " \o param.name \o " = { ... };"]>>
    ELSE <<>>

\* init: the lowered default, still inside the buffer opened for it
DefaultLine(param, init) ==
    <<[default |-> TRUE,
       text |-> "if " \o param.name \o " == nil then " \o JoinedTop(init.s)
                \o param.name \o " = " \o init.str \o "; end;"]>>

ParameterCons(param, own, rest) ==
    IF rest.err # "" THEN rest
    ELSE [s |-> rest.s,
          paramNames |-> <<IF param.rest THEN "..." ELSE param.name>> \o rest.paramNames,
          initializers |-> own \o rest.initializers,
          err |-> ""]

ParameterDefault(param, init, params) ==
    IF init.err # ""
    THEN [s |-> init.s, paramNames |-> <<>>, initializers |-> <<>>, err |-> init.err]
    ELSE ParameterCons(param, RestLine(param) \o DefaultLine(param, init),
                       getParameterData(exitPrecedingStatementContext(init.s), params))

getParameterData(s, params) ==
    IF Len(params) = 0
    THEN [s |-> s, paramNames |-> <<>>, initializers |-> <<>>, err |-> ""]
    ELSE IF Head(params).init.kind = "None"
    THEN ParameterCons(Head(params), RestLine(Head(params)),
                       getParameterData(s, Tail(params)))
    ELSE ParameterDefault(Head(params),
                          compileExpression(enterPrecedingStatementContext(s),
                                            Head(params).init),
                          Tail(params))

\* node.getParameter(name): the first parameter of that name, if any
getParameter(params, name) ==
    IF \E i \in 1..Len(params) : params[i].name = name
    THEN params[CHOOSE i \in 1..Len(params) :
                    /\ params[i].name = name
                    /\ \A j \in 1..(i - 1) : params[j].name # name]
    ELSE [name |-> "", type |-> "undefined", rest |-> FALSE, init |-> NoNode]

\* the receiver is prepended even when the declared `this` was renamed
giveInitialSelfParameterAlwaysPrepend(node, paramNames) ==
    IF /\ Len(node.params) > 0
       /\ node.classParent
       /\ node.params[1].name = "this"
       /\ node.params[1].type \in {"this", "class"}
    THEN <<"self">> \o [paramNames EXCEPT ![1] = "self"]
    ELSE IF getParameter(node.params, "this").type # "void"
         THEN <<"self">> \o paramNames
         ELSE paramNames

giveInitialSelfParameter(node, paramNames) ==
    LET parameters == node.params
        replacedThis ==
            /\ Len(parameters) > 0
            /\ node.classParent
            /\ parameters[1].name = "this"
            /\ parameters[1].type \in {"this", "class"}
        thisParam == getParameter(parameters, "this")
    IN IF replacedThis THEN [paramNames EXCEPT ![1] = "self"]
       ELSE IF thisParam.type = "undefined" \/ thisParam.type # "void"
            THEN <<"self">> \o paramNames
            ELSE paramNames

(* --------------------------- function lowering -------------------------- *)
ExpressionKinds ==
    {"Identifier", "NumericLiteral", "PostfixUnaryExpression", "CallExpression",
     "ArrayLiteralExpression", "NewExpression", "ElementAccessExpression",
     "PropertyAccessExpression", "ParenthesizedExpression", "NonNullExpression"}

RECURSIVE IndentLines(_, _)
IndentLines(indent, lines) ==
    IF Len(lines) = 0 THEN ""
    ELSE indent \o Head(lines) \o "\n" \o IndentLines(indent, Tail(lines))

FunctionBodyEnd(head, inner) ==
    IF inner.err # "" THEN inner
    ELSE Ok(popIndent(inner.s), head \o inner.str \o popIndent(inner.s).indent)

compileFunctionBody(s, body, node, initializers) ==
    IF body.kind = "Block"
    THEN FunctionBodyEnd("\n" \o IndentLines(pushIndent(s).indent, initializers),
                         compileBlock(pushIndent(s), body, <<node>>))
    ELSE IF body.kind \in ExpressionKinds
    THEN FunctionBodyEnd("\n" \o IndentLines(pushIndent(s).indent, initializers),
                         ExitAndJoin(getReturnStrFromExpression(
                                         enterPrecedingStatementContext(pushIndent(s)),
                                         body, node), "", ""))
    ELSE Throw(s, "BadFunctionBody")

\* The function-like nodes: what the front end answers about each
FunctionNode(kind, name, params, body) ==
    [kind |-> kind, name |-> name, params |-> params, body |-> body,
     isAsync |-> FALSE, isGenerator |-> FALSE, returnsIterator |-> TRUE,
     tupleReturn |-> FALSE, returnsAny |-> FALSE, exported |-> FALSE,
     hoist |-> FALSE, reserved |-> FALSE, classParent |-> TRUE,
     selfReferenced |-> FALSE]

ParamNamesOf(node, paramNames) ==
    IF node.kind \in {"MethodDeclaration", "GetAccessor", "SetAccessor"}
    THEN giveInitialSelfParameter(node, paramNames)
    ELSE paramNames

\* shouldHoist(node, nameNode) for a named function declaration
Hoisted(node) == node.kind = "FunctionDeclaration" /\ node.name # "" /\ node.hoist

IsPlainFunction(node) ==
    node.kind \notin {"GetAccessor", "SetAccessor", "ConstructorDeclaration"}
IsAsyncFunction(node) == IsPlainFunction(node) /\ node.isAsync
IsGeneratorFunction(node) ==
    IsPlainFunction(node) /\ node.kind # "ArrowFunction" /\ node.isGenerator

\* result up to and including `function(<params>)`
FunctionHead(s, node, name, paramNames) ==
    (IF name # ""
     THEN s.indent
          \o (IF node.kind = "FunctionDeclaration" /\ ~Hoisted(node) THEN "local " ELSE "")
          \o name \o " = "
     ELSE "")
    \o (IF IsAsyncFunction(node) THEN "TS.async(" ELSE "")
    \o "function(" \o Join(ParamNamesOf(node, paramNames), ", ") \o ")"

BackWrap(node, name) ==
    (IF IsAsyncFunction(node) THEN ")" ELSE "") \o (IF name # "" THEN ";\n" ELSE "")

\* body: the lowered body; the scope frame is popped only here
FunctionClose(head, backWrap, body) ==
    IF body.err # "" THEN body
    ELSE Ok(popIdStack(body.s), head \o body.str \o "end" \o backWrap)

\* body: the lowered body, two indents in
GeneratorClose(head, backWrap, body) ==
    IF body.err # "" THEN body
    ELSE Ok(popIdStack(popIndent(popIndent(body.s))),
            head \o "\n" \o popIndent(body.s).indent \o "return {\n"
            \o body.s.indent \o "next = coroutine.wrap(function()"
            \o body.str
            \o "\trepeat coroutine.yield({ done = true }) until false;\n"
            \o body.s.indent \o "end);\n"
            \o popIndent(body.s).indent \o "};\n"
            \o popIndent(popIndent(body.s)).indent
            \o "end" \o backWrap)

\* s: the state after the parameters, the return type check and the hoisting
FunctionBody(s, node, name, body, data) ==
    IF IsGeneratorFunction(node)
    THEN IF ~node.returnsIterator THEN Throw(s, "BadIterator")
         ELSE GeneratorClose(FunctionHead(s, node, name, data.paramNames),
                             BackWrap(node, name),
                             compileFunctionBody(pushIndent(pushIndent(s)), body, node,
                                 InitializerTexts(data.initializers, BOOLEAN)))
    ELSE FunctionClose(FunctionHead(s, node, name, data.paramNames),
                       BackWrap(node, name),
                       compileFunctionBody(s, body, node,
                           InitializerTexts(data.initializers, BOOLEAN)))

\* data: what getParameterData returned inside the new scope frame
FunctionOpen(node, name, body, data) ==
    IF data.err # "" THEN Throw(data.s, data.err)
    ELSE IF node.returnsAny THEN Throw(data.s, "NoAny")
    ELSE FunctionBody(IF Hoisted(node) THEN pushHoistStack(data.s, name) ELSE data.s,
                      node, name, body, data)

compileFunction(s, node, name, body) ==
    FunctionOpen(node, name, body, getParameterData(pushIdStack(s), node.params))

compileFunctionDeclaration(s, node) ==
    IF node.name # "" /\ node.reserved THEN Throw(s, "ReservedKeyword")
    ELSE IF node.body.kind = "None"
         THEN Ok(IF node.name # "" THEN s ELSE getNewId(s), "")
    ELSE IF node.name # ""
         THEN compileFunction(pushExport(s, node.name, node.exported),
                              node, node.name, node.body)
    ELSE compileFunction(pushExport(getNewId(s), NextId(s), node.exported),
                         node, NextId(s), node.body)

compileMethodDeclaration(s, node) ==
    IF node.reserved THEN Throw(s, "ReservedKeyword")
    ELSE compileFunction(s, node, node.name, node.body)

compileAccessorDeclaration(s, node, name) ==
    IF node.body.kind = "None" THEN Ok(s, "")
    ELSE compileFunction(s, node, name, node.body)

\* fn: the lowered function, pushed as a preceding statement inside `do ... end`
FunctionExpressionEnd(s, node, id, fn) ==
    IF fn.err # "" THEN fn
    ELSE Ok(pushPrecedingStatements(
                popIndent(pushPrecedingStatements(
                    pushPrecedingStatements(fn.s, node.kind, fn.str),
                    node.kind, fn.s.indent \o id \o " = " \o node.name \o ";\n")),
                node.kind, s.indent \o "end;\n"),
            id)

compileFunctionExpression(s, node) ==
    IF node.kind = "FunctionExpression" /\ node.name # "" /\ node.selfReferenced
    THEN FunctionExpressionEnd(s, node, NextId(s),
             compileFunction(
                 pushPrecedingStatements(
                     pushIndent(pushPrecedingStatements(
                         pushPrecedingStatements(getNewId(s), node.kind,
                             s.indent \o "local " \o NextId(s) \o ";\n"),
                         node.kind, s.indent \o "do\n")),
                     node.kind, pushIndent(s).indent \o "local " \o node.name \o ";\n"),
                 node, node.name, node.body))
    ELSE compileFunction(s, node, "", node.body)

containsSuperExpression(statements) ==
    /\ Len(statements) > 0
    /\ statements[1].kind = "ExpressionStatement"
    /\ statements[1].exp.kind = "CallExpression"
    /\ statements[1].exp.name = "super"

\* node.getStatementByKind(ReturnStatement): among the statements of the body itself
getStatementByKind(statements, kind) ==
    \E i \in 1..Len(statements) : statements[i].kind = kind

ConstructorHead(s, className, paramNames) ==
    s.indent \o className \o ".constructor = function("
    \o Join(<<"self">> \o paramNames, ", ") \o ")\n"

\* s: the state inside the body, one indent in
ConstructorTail(s) ==
    Ok(popIdStack(popIndent(s)),
       s.indent \o "return self;\n" \o popIndent(s).indent \o "end;\n")

\* rest: the lowered statements after the super call
ConstructorClose(head, node, rest) ==
    IF rest.err # "" THEN rest
    ELSE IF getStatementByKind(node.body.statements, "ReturnStatement")
         THEN Throw(rest.s, "NoConstructorReturn")
    ELSE Wrap(ConstructorTail(rest.s), head \o rest.str, "")

\* super: the lowered super call, if the body starts with one
ConstructorRest(head, initializers, node, k, super) ==
    IF super.err # "" THEN super
    ELSE ConstructorClose(head \o super.str \o initializers, node,
             compileStatements(super.s,
                 SubSeq(node.body.statements, k + 1, Len(node.body.statements)),
                 <<node.body, node>>))

\* data: what getParameterData returned inside the new scope frame
ConstructorOpen(className, node, extraInitializers, data) ==
    IF data.err # "" THEN Throw(data.s, data.err)
    ELSE IF node.body.kind # "Block"
         THEN Wrap(ConstructorTail(pushIndent(data.s)),
                   ConstructorHead(data.s, className, data.paramNames), "")
    ELSE ConstructorRest(
             ConstructorHead(data.s, className, data.paramNames)
             \o IndentLines(pushIndent(data.s).indent,
                            InitializerTexts(data.initializers, {TRUE})),
             IndentLines(pushIndent(data.s).indent,
                         InitializerTexts(data.initializers, {FALSE}))
             \o Join(extraInitializers, ""),
             node,
             IF containsSuperExpression(node.body.statements) THEN 1 ELSE 0,
             IF containsSuperExpression(node.body.statements)
             THEN compileStatement(pushIndent(data.s), node.body.statements[1],
                                   <<node.body, node>>)
             ELSE Ok(pushIndent(data.s), ""))

\* node = NoNode: the class declares no constructor
compileConstructorDeclaration(s, className, node, extraInitializers, hasSuper) ==
    IF node.kind = "None"
    THEN Wrap(ConstructorTail(pushIndent(pushIdStack(s))),
              ConstructorHead(s, className, <<"...">>)
              \o (IF hasSuper
                  THEN pushIndent(s).indent \o "super.constructor(self, ...);\n" ELSE "")
              \o Join(extraInitializers, ""),
              "")
    ELSE ConstructorOpen(className, node, extraInitializers,
                         getParameterData(pushIdStack(s), node.params))

(* ------------------------------- inputs --------------------------------- *)
IndexExpressions ==
    { NumericLiteral("0"), NumericLiteral("1"), NumericLiteral("9"), NumericLiteral("1e1"),
      NumericLiteral("0e0"),
      Identifier("i", "number"), Identifier("key", "string"), Identifier("x", "any"),
      PostfixUnaryExpression("i") }

BaseExpressions ==
    { Identifier("arr", "array"), Identifier("obj", "object"),
      ExportLetIdentifier("list", "array"),
      CallExpression("f", <<>>, TRUE, "tuple"),
      CallExpression("f", <<PostfixUnaryExpression("j")>>, TRUE, "tuple"),
      CallExpression("g", <<>>, FALSE, "array"),
      ArrayLiteralExpression(<<Identifier("a", "number"), Identifier("b", "number")>>),
      NewExpression("Array", TRUE),
      ElementAccessExpression(Identifier("grid", "array"), PostfixUnaryExpression("j"),
                              "array") }

ElementAccessExpressions ==
    { ElementAccessExpression(exp, arg, "number") :
        exp \in BaseExpressions, arg \in IndexExpressions }

PropertyAccessExpressions ==
    { PropertyAccessExpression(Identifier("arr", "array"), "length", "Array", "none", "number"),
      PropertyAccessExpression(Identifier("arr", "array"), "push", "Array", "none", "object"),
      PropertyAccessExpression(Identifier("fn", "object"), "name", "None", "function", "string"),
      PropertyAccessExpression(Identifier("Cls", "object"), "prototype", "None", "class", "object"),
      PropertyAccessExpression(Identifier("obj", "object"), "field", "None", "none", "number"),
      PropertyAccessExpression(Identifier("x", "any"), "field", "None", "none", "number"),
      PropertyAccessExpression(SuperExpression("Base"), "size", "None", "none", "number"),
      ConstEnumMember(Identifier("Color", "object"), "Red", "0") }


ReadableExpressions ==
    { Identifier("v", "number"), Identifier("_7", "number"),
      ExportLetIdentifier("count", "number"), ExportLetIdentifier("_8", "number"),
      CallExpression("g", <<>>, FALSE, "array"),
      PostfixUnaryExpression("i"),
      ElementAccessExpression(Identifier("arr", "array"), NumericLiteral("0"), "number"),
      PropertyAccessExpression(Identifier("fn", "object"), "name", "None", "function", "string") }

ReturnedExpressions ==
    { NoNode,
      ArrayLiteralExpression(<<>>),
      ArrayLiteralExpression(<<Identifier("a", "number"), Identifier("b", "number")>>),
      ArrayLiteralExpression(<<PostfixUnaryExpression("i"), Identifier("b", "number")>>),
      ParenthesizedExpression(
          ArrayLiteralExpression(<<Identifier("a", "number"),
              ArrayLiteralExpression(<<Identifier("b", "number")>>)>>)),
      CallExpression("f", <<>>, TRUE, "tuple"),
      NonNullExpression(ParenthesizedExpression(
          CallExpression("f", <<PostfixUnaryExpression("j")>>, TRUE, "tuple"))),
      CallExpression("g", <<>>, FALSE, "array"),
      Identifier("t", "tuple"),
      ElementAccessExpression(
          ElementAccessExpression(Identifier("grid", "array"), PostfixUnaryExpression("j"),
                                  "array"),
          PostfixUnaryExpression("i"), "number"),
      PropertyAccessExpression(Identifier("fn", "object"), "name", "None", "function", "string") }

ReturnStatements == { ReturnStatement(exp) : exp \in ReturnedExpressions }

\* what encloses a return statement, the nearest first
Enclosing(kind, tupleReturn) == [kind |-> kind, tupleReturn |-> tupleReturn]
AncestorChains ==
    { <<Enclosing("Block", FALSE), Enclosing("FunctionDeclaration", TRUE)>>,
      <<Enclosing("Block", FALSE), Enclosing("MethodDeclaration", FALSE)>>,
      <<Enclosing("Block", FALSE), Enclosing("IfStatement", FALSE),
        Enclosing("Block", FALSE), Enclosing("ArrowFunction", TRUE),
        Enclosing("Block", FALSE), Enclosing("FunctionDeclaration", FALSE)>>,
      <<Enclosing("Block", FALSE), Enclosing("FunctionExpression", FALSE),
        Enclosing("Block", FALSE), Enclosing("FunctionDeclaration", TRUE)>>,
      <<Enclosing("Block", FALSE), Enclosing("SourceFile", FALSE)>> }


ThrowingExpression ==
    PropertyAccessExpression(Identifier("fn", "object"), "name", "None", "function", "string")

OkBlock ==
    Block(<<ExpressionStatement(CallExpression("g", <<>>, FALSE, "array")),
            ReturnStatement(Identifier("v", "number"))>>)
YieldBlock ==
    Block(<<YieldStatement(Identifier("v", "number")),
            IfStatement(Identifier("c", "object"), <<ReturnStatement(NoNode)>>)>>)
ThrowingBlock == Block(<<ReturnStatement(ThrowingExpression)>>)

FunctionDeclaration(name, body) ==
    FunctionNode("FunctionDeclaration", name, <<Parameter("a", "number")>>, body)

FunctionDeclarations ==
    { FunctionDeclaration("foo", OkBlock),
      FunctionDeclaration("", OkBlock),
      FunctionDeclaration("foo", NoNode),
      [FunctionDeclaration("foo", OkBlock) EXCEPT !.exported = TRUE],
      [FunctionDeclaration("foo", OkBlock) EXCEPT !.exported = TRUE, !.hoist = TRUE],
      [FunctionDeclaration("foo", OkBlock) EXCEPT !.isAsync = TRUE],
      [FunctionDeclaration("then", OkBlock) EXCEPT !.reserved = TRUE, !.exported = TRUE,
                                                    !.hoist = TRUE],
      [FunctionDeclaration("gen", YieldBlock) EXCEPT !.isGenerator = TRUE],
      [FunctionDeclaration("gen", YieldBlock) EXCEPT !.isGenerator = TRUE,
                                                      !.returnsIterator = FALSE],
      [FunctionDeclaration("gen", YieldBlock) EXCEPT !.isGenerator = TRUE, !.hoist = TRUE,
                                                      !.returnsIterator = FALSE],
      [FunctionDeclaration("gen", YieldBlock) EXCEPT !.isGenerator = TRUE, !.exported = TRUE,
                                                      !.returnsIterator = FALSE],
      [FunctionDeclaration("bar", ThrowingBlock) EXCEPT !.exported = TRUE],
      [FunctionDeclaration("bar", ThrowingBlock) EXCEPT !.hoist = TRUE],
      FunctionDeclaration("bar", ThrowingBlock),
      [FunctionDeclaration("baz", OkBlock) EXCEPT !.returnsAny = TRUE, !.exported = TRUE],
      FunctionNode("FunctionDeclaration", "qux",
                   <<DefaultParameter("a", ThrowingExpression)>>, OkBlock),
      FunctionDeclaration("bad", [kind |-> "Bad"]) }

ParameterLists ==
    { <<>>,
      <<Parameter("a", "number")>>,
      <<Parameter("a", "number"), Parameter("b", "number")>>,
      <<Parameter("this", "this"), Parameter("a", "number")>>,
      <<Parameter("this", "class")>>,
      <<Parameter("this", "class"), Parameter("a", "number"), RestParameter("r")>>,
      <<Parameter("this", "void"), Parameter("a", "number")>>,
      <<Parameter("this", "other"), Parameter("a", "number")>>,
      <<Parameter("a", "number"),
        DefaultParameter("b", PostfixUnaryExpression("i"))>> }

Method(kind, params, body) == FunctionNode(kind, "m", params, body)

\* outside a class no parameter has the type `this` or the type of an enclosing class
MethodDeclarations ==
    { Method("MethodDeclaration", params, OkBlock) : params \in ParameterLists }
    \cup
    { [Method("MethodDeclaration", params, OkBlock) EXCEPT !.classParent = FALSE] :
        params \in { p \in ParameterLists :
                       \A i \in 1..Len(p) : p[i].type \notin {"this", "class"} } }
    \cup
    { [Method("MethodDeclaration", <<>>, OkBlock) EXCEPT !.reserved = TRUE],
      [Method("MethodDeclaration", <<>>, OkBlock) EXCEPT !.returnsAny = TRUE],
      Method("MethodDeclaration", <<DefaultParameter("a", ThrowingExpression)>>, OkBlock),
      Method("MethodDeclaration", <<>>, ThrowingBlock) }

AccessorDeclarations ==
    { Method("GetAccessor", <<>>, OkBlock),
      Method("GetAccessor", <<>>, NoNode),
      Method("GetAccessor", <<Parameter("this", "class")>>, OkBlock),
      Method("GetAccessor", <<>>, ThrowingBlock),
      Method("SetAccessor", <<Parameter("value", "number")>>, OkBlock),
      Method("SetAccessor", <<Parameter("this", "this"), Parameter("value", "number")>>,
             OkBlock),
      Method("SetAccessor", <<Parameter("this", "void"), Parameter("value", "number")>>,
             OkBlock) }

FunctionExpressions ==
    { [FunctionNode("ArrowFunction", "", <<Parameter("a", "number")>>, body)
          EXCEPT !.tupleReturn = tupleReturn] :
        body \in ReturnedExpressions \ {NoNode}, tupleReturn \in BOOLEAN }
    \cup
    { FunctionNode("FunctionExpression", "", <<>>, OkBlock),
      FunctionNode("FunctionExpression", "", <<>>, ThrowingBlock),
      [FunctionNode("FunctionExpression", "", <<>>, YieldBlock) EXCEPT !.isGenerator = TRUE],
      [FunctionNode("FunctionExpression", "fact", <<>>, OkBlock)
          EXCEPT !.selfReferenced = TRUE] }

Constructor(params, statements) ==
    FunctionNode("ConstructorDeclaration", "", params, Block(statements))

ConstructorDeclarations ==
    { NoNode,
      Constructor(<<>>, <<>>),
      Constructor(<<Parameter("a", "number"),
                    DefaultParameter("b", NumericLiteral("1"))>>,
                  <<ExpressionStatement(CallExpression("super", <<>>, FALSE, "object")),
                    ExpressionStatement(CallExpression("g", <<>>, FALSE, "array"))>>),
      Constructor(<<>>, <<ReturnStatement(NoNode)>>),
      Constructor(<<>>, <<ExpressionStatement(CallExpression("g", <<>>, FALSE, "array")),
                          ReturnStatement(Identifier("v", "number"))>>),
      Constructor(<<>>, <<IfStatement(Identifier("c", "object"),
                                      <<ReturnStatement(NoNode)>>)>>),
      Constructor(<<>>, <<ExpressionStatement(ThrowingExpression)>>),
      Constructor(<<DefaultParameter("a", ThrowingExpression)>>, <<>>) }

(* ------------------------------- actions -------------------------------- *)
Depth == Len(state.contexts)
Buffered == IF Depth = 0 THEN 0 ELSE Len(state.contexts[Depth])
IdsLeft == SumSeq(state.idStack) < MaxIds
HasRoom == IdsLeft /\ Depth > 0 /\ Buffered < MaxBuffered

\* before: the state the recorded call started from; arg: its second input
Record(op, node, arg, before, r) ==
    /\ state' = r.s
    /\ last' = [op |-> op, node |-> node, arg |-> arg, before |-> before,
                str |-> r.str, err |-> r.err]
    /\ UNCHANGED <<iterator, transform>>

\* a statement-level caller opens a buffer for the expression it is about to lower
EnterPrecedingStatementContext ==
    /\ Depth < MaxContexts
    /\ Record("enter", NoNode, "", state, Ok(enterPrecedingStatementContext(state), ""))

\* ... and closes it, taking the buffered statements
ExitPrecedingStatementContextAndJoin ==
    /\ Depth > 0
    /\ Record("exit", NoNode, "", state,
              Ok(exitPrecedingStatementContext(state), JoinedTop(state)))

CompileElementAccessExpression ==
    /\ HasRoom
    /\ \E node \in ElementAccessExpressions :
          Record("compileElementAccessExpression", node, "", state,
                 compileElementAccessExpression(state, node))

CompilePropertyAccessExpression ==
    /\ HasRoom
    /\ \E node \in PropertyAccessExpressions :
          Record("compilePropertyAccessExpression", node, "", state,
                 compilePropertyAccessExpression(state, node))

\* a caller lowers exp and asks for a name it can read any number of times
GetReadableExpressionName ==
    /\ HasRoom
    /\ \E exp \in ReadableExpressions :
          LET e == compileExpression(state, exp)
          IN IF e.err # ""
             THEN Record("compileExpression", exp, "", state, e)
             ELSE Record("getReadableExpressionName", exp, e.str, e.s,
                         getReadableExpressionName(e.s, exp, e.str))

\* ... and hands the name it got back in
ReenterReadableExpressionName ==
    /\ HasRoom
    /\ last.op = "getReadableExpressionName"
    /\ Record("getReadableExpressionName", last.node, last.str, state,
              getReadableExpressionName(state, last.node, last.str))

CompileReturnStatement ==
    /\ IdsLeft /\ Depth < MaxContexts
    /\ \E node \in ReturnStatements, ancestors \in AncestorChains :
          Record("compileReturnStatement", node, ancestors, state,
                 compileReturnStatement(state, node, ancestors))

CanDeclare ==
    /\ IdsLeft
    /\ Depth < MaxContexts
    /\ Len(state.idStack) <= MaxScopes
    /\ Len(state.exports) < MaxRecorded
    /\ Len(state.hoistStack) < MaxRecorded

CompileFunctionDeclaration ==
    /\ CanDeclare
    /\ \E node \in FunctionDeclarations :
          Record("compileFunctionDeclaration", node, "", state,
                 compileFunctionDeclaration(state, node))

CompileMethodDeclaration ==
    /\ CanDeclare
    /\ \E node \in MethodDeclarations :
          Record("compileMethodDeclaration", node, "", state,
                 compileMethodDeclaration(state, node))

CompileAccessorDeclaration ==
    /\ CanDeclare
    /\ \E node \in AccessorDeclarations :
          Record("compileAccessorDeclaration", node, "", state,
                 compileAccessorDeclaration(state, node, node.name))

\* a function expression that refers to itself needs an open buffer
CompileFunctionExpression ==
    /\ CanDeclare
    /\ \E node \in FunctionExpressions :
          /\ node.selfReferenced => (Depth > 0 /\ Buffered < MaxBuffered)
          /\ Record("compileFunctionExpression", node, "", state,
                    compileFunctionExpression(state, node))

CompileConstructorDeclaration ==
    /\ CanDeclare
    /\ \E node \in ConstructorDeclarations, hasSuper \in BOOLEAN,
          extraInitializers \in {<<>>, <<"\tself.field = 1;\n">>} :
          Record("compileConstructorDeclaration", node,
                 [hasSuper |-> hasSuper, extraInitializers |-> extraInitializers], state,
                 compileConstructorDeclaration(state, "Cls", node, extraInitializers,
                                               hasSuper))


NoIterator == [status |-> "none"]
NoTransform == [phase |-> "none"]

NewLast ==
    [op |-> "new", node |-> NoNode, arg |-> "", before |-> NewState, str |-> "", err |-> ""]

\* lowering of element and property access inside an open buffer
InitLowering ==
    /\ state = NewState
    /\ last = NewLast
    /\ iterator = NoIterator
    /\ transform = NoTransform

NextIndexed ==
    \/ EnterPrecedingStatementContext
    \/ ExitPrecedingStatementContextAndJoin
    \/ CompileElementAccessExpression
    \/ CompilePropertyAccessExpression

SpecIndexed == InitLowering /\ [][NextIndexed]_vars

NextReadable ==
    \/ EnterPrecedingStatementContext
    \/ ExitPrecedingStatementContextAndJoin
    \/ GetReadableExpressionName
    \/ ReenterReadableExpressionName

SpecReadable == InitLowering /\ [][NextReadable]_vars

NextReturn ==
    \/ CompileReturnStatement
    \/ CompileFunctionExpression
    \/ EnterPrecedingStatementContext
    \/ ExitPrecedingStatementContextAndJoin

SpecReturn == InitLowering /\ [][NextReturn]_vars

NextFunction ==
    \/ CompileFunctionDeclaration
    \/ CompileMethodDeclaration
    \/ CompileAccessorDeclaration
    \/ CompileConstructorDeclaration

SpecFunction == InitLowering /\ [][NextFunction]_vars

(* ------------------------------- claims --------------------------------- *)

(* ------------------- the emitted generator at run time ------------------- *)
\* text up to the first line break, and the text after it
FirstLine(str) ==
    IF Contains(str, "\n")
    THEN SubSeq(str, 1, (CHOOSE i \in 1..Len(str) :
                            /\ CharAt(str, i) = "\n"
                            /\ \A j \in 1..(i - 1) : CharAt(str, j) # "\n") - 1)
    ELSE str
RECURSIVE TrimIndent(_)
TrimIndent(line) ==
    IF StartsWith(line, "\t") THEN TrimIndent(SubSeq(line, 2, Len(line))) ELSE line
RECURSIVE Lines(_)
Lines(str) ==
    IF str = "" THEN <<>>
    ELSE <<TrimIndent(FirstLine(str))>>
         \o Lines(SubSeq(str, Len(FirstLine(str)) + 2, Len(str)))

WrapOpen == "next = coroutine.wrap(function()"
WrapClose == "end);"
DoneLoop == "repeat coroutine.yield({ done = true }) until false;"
DoneResult == "{ done = true }"
DeadCoroutine == "cannot resume dead coroutine"

IndexOf(lines, line) == CHOOSE i \in 1..Len(lines) : lines[i] = line

\* the statements of the function handed to coroutine.wrap
CoroutineBody(str) ==
    SubSeq(Lines(str), IndexOf(Lines(str), WrapOpen) + 1, IndexOf(Lines(str), WrapClose) - 1)

\* the line after the `end;` that closes the block opened before line pc
RECURSIVE AfterBlock(_, _, _)
AfterBlock(lines, pc, open) ==
    IF pc > Len(lines) THEN pc
    ELSE IF StartsWith(lines[pc], "if ") THEN AfterBlock(lines, pc + 1, open + 1)
    ELSE IF lines[pc] = "end;"
         THEN IF open = 0 THEN pc + 1 ELSE AfterBlock(lines, pc + 1, open - 1)
    ELSE AfterBlock(lines, pc + 1, open)

\* the coroutine runs from line pc to its next yield, to a return or off its end;
\* taken: what the conditions it meets evaluate to
RECURSIVE Run(_, _, _)
Run(lines, pc, taken) ==
    IF pc > Len(lines)
    THEN [pc |-> pc, status |-> "dead", result |-> "", finished |-> TRUE]
    ELSE IF lines[pc] = DoneLoop
    THEN [pc |-> pc, status |-> "suspended", result |-> DoneResult, finished |-> TRUE]
    ELSE IF StartsWith(lines[pc], "coroutine.yield(")
    THEN [pc |-> pc + 1, status |-> "suspended",
          result |-> SubSeq(lines[pc], 17, Len(lines[pc]) - 2), finished |-> FALSE]
    ELSE IF StartsWith(lines[pc], "return ")
    THEN [pc |-> pc, status |-> "dead",
          result |-> SubSeq(lines[pc], 8, Len(lines[pc]) - 1), finished |-> TRUE]
    ELSE IF StartsWith(lines[pc], "if ")
    THEN Run(lines, IF taken THEN pc + 1 ELSE AfterBlock(lines, pc + 1, 0), taken)
    ELSE Run(lines, pc + 1, taken)

\* late: the call came after the body had fully executed
Resumed(it, r) ==
    [it EXCEPT !.pc = r.pc, !.status = r.status, !.result = r.result,
               !.late = it.finished, !.finished = r.finished, !.calls = @ + 1]

\* next(): coroutine.wrap resumes the coroutine, and raises when it is dead
Resume(it, taken) ==
    IF it.status = "dead"
    THEN [it EXCEPT !.result = DeadCoroutine, !.late = TRUE, !.calls = @ + 1]
    ELSE Resumed(it, Run(it.lines, it.pc, taken))

MaxCalls == 4

Generator(body) ==
    [FunctionDeclaration("gen", Block(body)) EXCEPT !.isGenerator = TRUE]

Yield(name) == YieldStatement(Identifier(name, "number"))
If(statements) == IfStatement(Identifier("c", "object"), statements)

GeneratorDeclarations ==
    { Generator(<<>>),
      Generator(<<Yield("v")>>),
      Generator(<<Yield("v"), Yield("w")>>),
      Generator(<<Yield("v"), If(<<ReturnStatement(NoNode)>>)>>),
      Generator(<<Yield("v"), If(<<ReturnStatement(NoNode)>>), Yield("w")>>),
      Generator(<<If(<<ReturnStatement(Identifier("v", "number"))>>), Yield("w")>>),
      Generator(<<If(<<Yield("v")>>), Yield("w")>>),
      Generator(<<If(<<Yield("v"), If(<<ReturnStatement(NoNode)>>)>>), Yield("w")>>),
      Generator(<<ExpressionStatement(CallExpression("g", <<>>, FALSE, "array")),
                  Yield("v")>>),
      Generator(<<If(<<Yield("v")>>), If(<<ReturnStatement(Identifier("v", "number"))>>),
                  Yield("w")>>),
      [Generator(<<Yield("v"), Yield("w")>>) EXCEPT !.exported = TRUE],
      [Generator(<<Yield("v")>>) EXCEPT !.returnsIterator = FALSE] }

Defined(r) ==
    IF r.err # "" THEN iterator
    ELSE [status |-> "defined", lines |-> CoroutineBody(r.str), pc |-> 1, result |-> "",
          finished |-> FALSE, late |-> FALSE, calls |-> 0]

Lowered(node, r) ==
    /\ state' = r.s
    /\ last' = [op |-> "compileFunctionDeclaration", node |-> node, arg |-> "",
                before |-> state, str |-> r.str, err |-> r.err]
    /\ iterator' = Defined(r)
    /\ UNCHANGED transform

\* the generator declaration is lowered; the emitted text is the program run below
CompileGenerator ==
    /\ iterator.status = "none"
    /\ Len(state.idStack) <= MaxScopes
    /\ \E node \in GeneratorDeclarations :
          Lowered(node, compileFunctionDeclaration(state, node))

\* gen(a): the emitted function returns a table holding a new wrapped coroutine
CallGenerator ==
    /\ iterator.status \in {"defined", "suspended", "dead"}
    /\ iterator.calls < MaxCalls
    /\ iterator' = [iterator EXCEPT !.status = "suspended", !.pc = 1, !.result = "",
                                    !.finished = FALSE, !.late = FALSE]
    /\ UNCHANGED <<state, last, transform>>

\* iterator.next()
CallNext ==
    /\ iterator.status \in {"suspended", "dead"}
    /\ iterator.calls < MaxCalls
    /\ \E taken \in BOOLEAN : iterator' = Resume(iterator, taken)
    /\ UNCHANGED <<state, last, transform>>

NextGen ==
    \/ CompileGenerator
    \/ CallGenerator
    \/ CallNext

SpecGen == InitLowering /\ [][NextGen]_vars

(* ----------------------------- transformParameters ----------------------------- *)
MaxParameters == 3

\* TransformState: the stack of prerequisite statement lists, and the temporary ids
NewTransformState == [prereqStatementsStack |-> <<<<>>>>, tempId |-> 0]

LuaStatement(kind, left, right, condition, statements) ==
    [kind |-> kind, left |-> left, right |-> right, condition |-> condition,
     statements |-> statements, elseBody |-> <<>>]
Assignment(left, right) == LuaStatement("Assignment", left, right, "", <<>>)
VariableDeclaration(left, right) == LuaStatement("VariableDeclaration", left, right, "", <<>>)
LuaIfStatement(condition, statements) == LuaStatement("IfStatement", "", "", condition, statements)
LuaBinaryExpression(left, operator, right) == left \o " " \o operator \o " " \o right

prereq(ts, statement) ==
    [ts EXCEPT !.prereqStatementsStack[Len(ts.prereqStatementsStack)] = Append(@, statement)]
pushPrereqStatementsStack(ts) ==
    [ts EXCEPT !.prereqStatementsStack = Append(@, <<>>)]
popPrereqStatementsStack(ts) ==
    [ts EXCEPT !.prereqStatementsStack = SubSeq(@, 1, Len(@) - 1)]
TopPrereqStatements(ts) == ts.prereqStatementsStack[Len(ts.prereqStatementsStack)]

BinaryExpression(left, operator, right) ==
    [kind |-> "BinaryExpression", left |-> left, operator |-> operator, right |-> right,
     tupleReturn |-> FALSE]

TempName(ts) == "_" \o ToString(ts.tempId)

\* the lowered expression; what it must do first becomes prerequisite statements
transformExpression(ts, node) ==
    CASE node.kind = "NumericLiteral" -> [s |-> ts, exp |-> node.text]
      [] node.kind = "Identifier" -> [s |-> ts, exp |-> node.name]
      [] node.kind = "BinaryExpression" ->
            [s |-> ts, exp |-> LuaBinaryExpression(node.left, node.operator, node.right)]
      [] node.kind = "PostfixUnaryExpression" ->
            [s |-> prereq(prereq([ts EXCEPT !.tempId = @ + 1],
                                 VariableDeclaration(TempName(ts), node.name)),
                          Assignment(node.name,
                                     LuaBinaryExpression(node.name, "+", "1"))),
             exp |-> TempName(ts)]

\* state.statement(callback): what the callback made prerequisite is the result
CapturedStatements(ts) ==
    [s |-> popPrereqStatementsStack(ts), statements |-> TopPrereqStatements(ts)]

InitializerAssigned(paramId, e) == prereq(e.s, Assignment(paramId, e.exp))

InitializerIf(paramId, captured) ==
    [s |-> captured.s,
     node |-> LuaIfStatement(LuaBinaryExpression(paramId, "==", "nil"),
                             captured.statements)]

\* the assignment is made prerequisite of the enclosing list
transformParamInitializerUncaptured(ts, paramId, initializer) ==
    InitializerIf(paramId,
                  [s |-> InitializerAssigned(paramId, transformExpression(ts, initializer)),
                   statements |-> <<Assignment(paramId,
                                               transformExpression(ts, initializer).exp)>>])

transformParamInitializer(ts, paramId, initializer) ==
    InitializerIf(paramId,
                  CapturedStatements(
                      InitializerAssigned(paramId,
                          transformExpression(pushPrereqStatementsStack(ts), initializer))))

ParameterDeclaration(name, dotDotDotToken, initializer) ==
    [name |-> name, dotDotDotToken |-> dotDotDotToken, initializer |-> initializer]
BindingName(kind, text) == [kind |-> kind, text |-> text]

NewParameters(ts) ==
    [s |-> ts, parameters |-> <<>>, statements |-> <<>>, hasDotDotDot |-> FALSE, err |-> ""]

RestStatement(paramId) == VariableDeclaration(paramId, "{ ... }")

\* one turn of the loop over tsParams
WithInitializer(acc, init) ==
    [acc EXCEPT !.s = init.s, !.statements = Append(@, init.node)]
WithParameter(acc, tsParam) ==
    IF tsParam.dotDotDotToken
    THEN [acc EXCEPT !.hasDotDotDot = TRUE,
                     !.statements = Append(@, RestStatement(tsParam.name.text))]
    ELSE [acc EXCEPT !.parameters = Append(@, tsParam.name.text)]
TransformedParameter(acc, tsParam) ==
    IF tsParam.initializer.kind = "None" THEN acc
    ELSE WithInitializer(acc, transformParamInitializer(acc.s, tsParam.name.text,
                                                        tsParam.initializer))
TransformParameter(acc, tsParam) ==
    IF tsParam.name.kind # "Identifier"
    THEN [acc EXCEPT !.err = "Not implemented"]
    ELSE TransformedParameter(WithParameter(acc, tsParam), tsParam)

RECURSIVE TransformParametersFrom(_, _)
TransformParametersFrom(acc, tsParams) ==
    IF acc.err # "" \/ Len(tsParams) = 0 THEN acc
    ELSE TransformParametersFrom(TransformParameter(acc, Head(tsParams)), Tail(tsParams))

transformParameters(ts, tsParams) == TransformParametersFrom(NewParameters(ts), tsParams)

ParameterNames == <<"x", "y", "z", "w", "u">>

Initializers ==
    { NoNode, NumericLiteral("1"), BinaryExpression("x", "+", "1"),
      PostfixUnaryExpression("i") }

\* the declarations a parameter at position i can be; a rest parameter comes last
ParameterDeclarations(i, isLast) ==
    { ParameterDeclaration(BindingName("Identifier", ParameterNames[i]), FALSE, init) :
        init \in Initializers }
    \cup { ParameterDeclaration(BindingName("ObjectBindingPattern", "{ a, b }"), FALSE, NoNode) }
    \cup IF isLast
         THEN { ParameterDeclaration(BindingName("Identifier", ParameterNames[i]), TRUE, NoNode) }
         ELSE {}

ParameterDeclarationLists ==
    UNION { { ps \in [1..n -> UNION { ParameterDeclarations(i, b) :
                                         i \in 1..n, b \in BOOLEAN }] :
                \A i \in 1..n : ps[i] \in ParameterDeclarations(i, i = n) } :
            n \in 0..MaxParameters }

InitParameters ==
    /\ state = NewState
    /\ last = NewLast
    /\ iterator = NoIterator
    /\ transform \in { [phase |-> "declared", tsParams |-> ps, state |-> NewTransformState,
                        result |-> NewParameters(NewTransformState)] :
                       ps \in ParameterDeclarationLists }

Transformed(r) ==
    [transform EXCEPT !.phase = "transformed", !.state = r.s, !.result = r]

TransformParameters ==
    /\ transform.phase = "declared"
    /\ transform' = Transformed(transformParameters(transform.state, transform.tsParams))
    /\ UNCHANGED <<state, last, iterator>>

NextParameters == TransformParameters

SpecParameters == InitParameters /\ [][NextParameters]_vars


\* the statements the last call appended to the innermost open buffer
Pushed ==
    LET d == Len(last.before.contexts)
    IN SubSeq(state.contexts[d], Len(last.before.contexts[d]) + 1, Len(state.contexts[d]))

LoweredElementAccess == last.op = "compileElementAccessExpression" /\ last.err = ""

\* the value a numeric literal denotes: <digits> or <digits>e<digits>
RECURSIVE Power10(_)
Power10(n) == IF n = 0 THEN 1 ELSE 10 * Power10(n - 1)
LiteralValue(text) ==
    IF Contains(text, "e")
    THEN LET k == CHOOSE i \in 1..Len(text) : CharAt(text, i) = "e"
         IN Number(SubSeq(text, 1, k - 1)) * Power10(Number(SubSeq(text, k + 1, Len(text))))
    ELSE Number(text)

\* C1: when base[index] is lowered and both sides extract statements, every
\* statement extracted for the base comes before every statement extracted for
\* the index (source order), for plain bases and tuple-returning calls alike.
C1_BaseStatementsBeforeIndexStatements ==
    LoweredElementAccess =>
        \A i, j \in 1..Len(Pushed) :
            ( /\ InSeq(Pushed[i].node, Effects(last.node.exp))
              /\ InSeq(Pushed[j].node, Effects(last.node.arg)) ) => i < j

IsTupleCallBase == isTupleReturnTypeCall(last.node.exp)
IsArrayBase == isArrayType(last.node.exp.type) /\ ~IsTupleCallBase
IsLiteralIndex == last.node.arg.kind = "NumericLiteral"
IsFoldedIndex == IsLiteralIndex /\ ~Contains(last.node.arg.text, "e")

IsSyntheticTemporary(str) == \E n \in 0..99 : str = "_" \o ToString(n)

\* C9: getReadableExpressionName returns a text of the synthetic form `_<digits>`
\* unchanged and pushes nothing, so handing its own result back in extracts
\* nothing more; an identifier is inlined exactly when it is not bound to an
\* exported `let`; every other expression is extracted once into a fresh id.
C9_IdempotentExtraction ==
    last.op = "getReadableExpressionName" =>
        /\ last.err = ""
        /\ IF \/ IsSyntheticTemporary(last.arg)
              \/ (last.node.kind = "Identifier" /\ ~last.node.exportLet)
           THEN last.str = last.arg /\ state = last.before
           ELSE /\ Len(Pushed) = 1
                /\ last.str = "_" \o ToString(SumSeq(last.before.idStack))
                /\ IsSyntheticTemporary(last.str)
                /\ Pushed[1].text = last.before.indent \o "local " \o last.str \o " = "
                                    \o last.arg \o ";\n"
                /\ SumSeq(state.idStack) = SumSeq(last.before.idStack) + 1
        /\ ( /\ last.node.kind = "Identifier"
             /\ last.arg = compileIdentifier(last.before, last.node).str ) =>
              ((last.str = last.arg /\ state = last.before) <=> ~last.node.exportLet)

\* a call, once extracted, is handed back in under its synthetic name
C9_Witness ==
    /\ last.op = "getReadableExpressionName"
    /\ last.node.kind = "CallExpression"
    /\ IsSyntheticTemporary(last.arg)
    /\ Len(state.contexts[Depth]) > 0
    /\ state = last.before

LoweredReturn ==
    last.op = "compileReturnStatement" /\ last.err = "" /\ last.node.exp.kind # "None"

\* the nearest function-like ancestor
NearestFunction(ancestors) ==
    IF \E i \in 1..Len(ancestors) : ancestors[i].kind \in FunctionLikeKinds
    THEN ancestors[CHOOSE i \in 1..Len(ancestors) :
                       /\ ancestors[i].kind \in FunctionLikeKinds
                       /\ \A j \in 1..(i - 1) : ancestors[j].kind \notin FunctionLikeKinds]
    ELSE NoNode

RECURSIVE Unwrapped(_)
Unwrapped(exp) ==
    IF exp.kind \in {"ParenthesizedExpression", "NonNullExpression"}
    THEN Unwrapped(exp.exp) ELSE exp

TextsOf(statements) == Join([i \in 1..Len(statements) |-> statements[i].text], "")

\* the return line a tuple-returning or other function must get for exp
ExpectedReturnLine(s, exp, tupleReturn) ==
    IF tupleReturn
    THEN IF exp.kind = "ArrayLiteralExpression"
         THEN "return " \o Join(compileList(s, exp.elements).str, ", ") \o ";"
         ELSE IF exp.kind = "CallExpression" /\ exp.tupleReturn
         THEN "return " \o exp.name \o "("
              \o Join(compileList(s, exp.args).str, ", ") \o ");"
         ELSE "return unpack(" \o compileExpression(s, exp).str \o ");"
    ELSE "return " \o compileExpression(s, exp).str \o ";"

\* C3: in a function with a fixed-arity tuple return type `return <expr>` lowers
\* (a) an array literal to a bare `return a, b, ...;`, (b) a call of a
\* tuple-returning function to `return f(...);`, (c) anything else to
\* `return unpack(<expr>);`; for any other return type to `return <expr>;`.
C3_TupleReturnLowering ==
    LoweredReturn =>
        last.str = TextsOf(state.flushed) \o last.before.indent
                   \o ExpectedReturnLine(enterPrecedingStatementContext(last.before),
                                         Unwrapped(last.node.exp),
                                         NearestFunction(last.arg).tupleReturn)
                   \o "\n"

\* a literal pair returned from a lambda nested in a function that returns no tuple
C3_Witness ==
    /\ LoweredReturn
    /\ last.str = "return a, { b };\n"
    /\ Len(last.arg) = 6
    /\ last.node.exp.kind = "ParenthesizedExpression"

\* C10: `return <expr>;` and a single-expression arrow body open one buffer and
\* close it again: afterwards the buffers are as before, whatever the lowering
\* of <expr> did, and the text is the buffered statements in push order followed
\* by one return line; a bare `return;` is `return nil;` and opens no buffer.
C10_ReturnSplicing ==
    /\ last.op = "compileReturnStatement" =>
          /\ state.contexts = last.before.contexts
          /\ (last.err = "" /\ last.node.exp.kind # "None") =>
                /\ StartsWith(last.str, TextsOf(state.flushed) \o last.before.indent
                                        \o "return ")
                /\ ~HasSubstring(SubSeq(last.str, Len(TextsOf(state.flushed)) + 2,
                                        Len(last.str) - 1), "\n")
          /\ last.node.exp.kind = "None" =>
                last.str = last.before.indent \o "return nil;\n"
    /\ (last.op = "compileFunctionExpression" /\ last.node.kind = "ArrowFunction") =>
          /\ state.contexts = last.before.contexts
          /\ last.err = "" =>
                /\ StartsWith(last.str, "function(a)\n" \o TextsOf(state.flushed)
                                        \o "\treturn ")
                /\ EndsWith(last.str, ";\nend")

DeclaredNames(params) ==
    [i \in 1..Len(params) |-> IF params[i].rest THEN "..." ELSE params[i].name]

ReceiverDeclared(node) ==
    /\ Len(node.params) > 0
    /\ node.params[1].name = "this"
    /\ node.params[1].type \in {"this", "class"}

VoidReceiverDeclared(node) ==
    \E i \in 1..Len(node.params) :
        node.params[i].name = "this" /\ node.params[i].type = "void"

ExpectedParameters(node) ==
    IF ReceiverDeclared(node) THEN <<"self">> \o Tail(DeclaredNames(node.params))
    ELSE IF VoidReceiverDeclared(node) THEN DeclaredNames(node.params)
    ELSE <<"self">> \o DeclaredNames(node.params)

LoweredMethod ==
    /\ last.op \in {"compileMethodDeclaration", "compileAccessorDeclaration"}
    /\ last.err = ""
    /\ last.node.body.kind # "None"

\* C5: a method, getter or setter whose first parameter is `this` of type `this`
\* or of the class type has it renamed to `self`, the count unchanged; otherwise,
\* unless a `this: void` is declared, `self` is prepended; either way `self` is
\* the first parameter, occurs once, and the other parameters keep their order.
C5_SelfParameterInjection ==
    LoweredMethod =>
        /\ StartsWith(last.str, last.before.indent \o "m = function("
                                \o Join(ExpectedParameters(last.node), ", ") \o ")\n")
        /\ ~VoidReceiverDeclared(last.node) =>
              /\ ExpectedParameters(last.node)[1] = "self"
              /\ Cardinality({i \in 1..Len(ExpectedParameters(last.node)) :
                                 ExpectedParameters(last.node)[i] = "self"}) = 1
        /\ ReceiverDeclared(last.node) =>
              Len(ExpectedParameters(last.node)) = Len(last.node.params)

C5_Witness ==
    /\ LoweredMethod
    /\ ReceiverDeclared(last.node)
    /\ Len(last.node.params) = 3
    /\ StartsWith(last.str, "m = function(self, a, ...)\n")

\* C7: compileFunction and compileConstructorDeclaration match every pushIdStack
\* with one popIdStack on every exit path, a raised CompilerError included: the
\* scope stack is as deep after the call as before it.
C7_ScopeFramesMatched ==
    last.op \in {"compileFunctionDeclaration", "compileMethodDeclaration",
                 "compileAccessorDeclaration", "compileConstructorDeclaration"} =>
        Len(state.idStack) = Len(last.before.idStack)

\* C8: a function declaration that raises a CompilerError returns no text and
\* leaves no export entry and no hoisted name behind.
C8_FailedDeclarationLeavesNothing ==
    (last.op = "compileFunctionDeclaration" /\ last.err # "") =>
        /\ last.str = ""
        /\ state.exports = last.before.exports
        /\ state.hoistStack = last.before.hoistStack

\* C2: once the body of a generator has fully executed, by running off its end
\* or through a lowered return statement, every later call of next returns the
\* terminal { done = true } result, re-executes no part of the body and resumes
\* no dead coroutine.
C2_GeneratorTermination ==
    (iterator.status # "none" /\ iterator.late) =>
        /\ iterator.result = DoneResult
        /\ iterator.status = "suspended"
        /\ iterator.lines[iterator.pc] = DoneLoop

DeclaredParameters == transform.tsParams
IsRest(i) == DeclaredParameters[i].dotDotDotToken
IsDefaulted(i) == DeclaredParameters[i].initializer.kind # "None"
SlotNames ==
    LET slots == SelectSeq([i \in 1..Len(DeclaredParameters) |-> i], LAMBDA i : ~IsRest(i))
    IN [k \in 1..Len(slots) |-> DeclaredParameters[slots[k]].name.text]
Defaulted ==
    SelectSeq([i \in 1..Len(DeclaredParameters) |-> i], LAMBDA i : IsDefaulted(i))
Conditionals ==
    SelectSeq(transform.result.statements, LAMBDA st : st.kind = "IfStatement")

\* the body `if p == nil then` must have for the default of the parameter at i
IsLoweredDefault(body, i) ==
    \E n \in 0..Len(DeclaredParameters) :
        LET ts == [prereqStatementsStack |-> <<<<>>>>, tempId |-> n]
            e == transformExpression(ts, DeclaredParameters[i].initializer)
        IN body = TopPrereqStatements(e.s)
                  \o <<Assignment(DeclaredParameters[i].name.text, e.exp)>>

\* C6: transformParameters gives each non-rest parameter one slot, in declaration
\* order, and returns one conditional per defaulted parameter, in declaration
\* order, of the form `if p == nil then p = <lowered default> end`; the default
\* and the statements extracted from it are inside that conditional only, and
\* the statements of a parameter follow those of the parameters declared before
\* it. A name that is no identifier is the fault "Not implemented".
C6_DefaultParameterLowering ==
    transform.phase = "transformed" =>
        /\ (transform.result.err = "") <=>
              \A i \in 1..Len(DeclaredParameters) :
                  DeclaredParameters[i].name.kind = "Identifier"
        /\ transform.result.err = "" =>
              /\ transform.result.parameters = SlotNames
              /\ Len(Conditionals) = Len(Defaulted)
              /\ \A k \in 1..Len(Conditionals) :
                    /\ Conditionals[k].condition
                          = DeclaredParameters[Defaulted[k]].name.text \o " == nil"
                    /\ Conditionals[k].elseBody = <<>>
                    /\ IsLoweredDefault(Conditionals[k].statements, Defaulted[k])
              /\ transform.state.prereqStatementsStack
                    = NewTransformState.prereqStatementsStack
              /\ Len(transform.result.statements)
                    = Len(Defaulted) + Cardinality({i \in 1..Len(DeclaredParameters) : IsRest(i)})
              /\ transform.result.hasDotDotDot
                    <=> \E i \in 1..Len(DeclaredParameters) : IsRest(i)
              /\ \A i \in 1..Len(DeclaredParameters) :
                    IsRest(i) =>
                        transform.result.statements[Len(transform.result.statements)]
                            = VariableDeclaration(DeclaredParameters[i].name.text, "{ ... }")

\* (x, y = x + 1, z = i++)
C6_Witness ==
    /\ transform.phase = "transformed"
    /\ transform.result.parameters = <<"x", "y", "z">>
    /\ transform.result.statements
          = << LuaIfStatement("y == nil", <<Assignment("y", "x + 1")>>),
               LuaIfStatement("z == nil", << VariableDeclaration("_0", "i"),
                                             Assignment("i", "i + 1"),
                                             Assignment("z", "_0") >>) >>

\* a return statement anywhere in the statements, inside nested blocks included
RECURSIVE ContainsReturn(_)
ContainsReturn(statements) ==
    \E i \in 1..Len(statements) :
        \/ statements[i].kind = "ReturnStatement"
        \/ /\ statements[i].kind = "IfStatement"
           /\ ContainsReturn(statements[i].statements)

DeclaredConstructor ==
    last.op = "compileConstructorDeclaration" /\ last.node.kind # "None"

\* C11: compileConstructorDeclaration raises NoConstructorReturn and returns no
\* text for every constructor whose body contains a return statement, at the
\* top level of the body or nested inside a block; a constructor without a
\* return statement that is lowered is a function whose first parameter is
\* `self` and whose last statement is `return self;`.
C11_ConstructorReturnRejected ==
    /\ (DeclaredConstructor /\ ContainsReturn(last.node.body.statements)) =>
          /\ last.err = "NoConstructorReturn"
          /\ last.str = ""
    /\ ( /\ last.op = "compileConstructorDeclaration"
         /\ last.err = ""
         /\ (last.node.kind # "None" => ~ContainsReturn(last.node.body.statements)) ) =>
          /\ StartsWith(last.str, last.before.indent \o "Cls.constructor = function(self")
          /\ EndsWith(last.str, last.before.indent \o "\treturn self;\n"
                                \o last.before.indent \o "end;\n")

====
